---- MODULE Spec2Model ----
(***************************************************************************)
(* Model of src/main.rs: the "100 prisoners" Monte Carlo simulation.       *)
(*                                                                         *)
(* main parses the arguments and calls simulate_prisoner_dilemma, which    *)
(* maps every iteration to a freshly shuffled box vector handed to         *)
(* apply_strategy, and divides the number of true outcomes by iterations.  *)
(* apply_strategy maps every prisoner to the outcome of a search loop that *)
(* calls the strategy function once before the loop and once per round of  *)
(* the loop.                                                               *)
(*                                                                         *)
(* Vectors are modelled as functions on 0..n-1, so that indices are the    *)
(* indices of the source.  Option<usize> is modelled as a sequence of      *)
(* length at most one: None is <<>> and Some(x) is <<x>>.                  *)
(***************************************************************************)
EXTENDS Integers, Sequences, FiniteSets, TLC

\* Largest prisoner count explored under the loop strategy and under the
\* naive strategy, and largest iteration count explored.
MaxPrisoners == 4
MaxNaivePrisoners == 3
MaxIterations == 2

VARIABLES
    pc,                 \* position of the single thread of control
    prisoners,          \* main.rs:104  args.prisoners as usize
    iterations,         \* main.rs:105  args.iterations
    strategy,           \* main.rs:30   the strategy function value
    trial,              \* main.rs:33   position of the range 0..iterations
    boxes,              \* main.rs:35   the boxes of the current trial
    p,                  \* main.rs:53   position of the range 0..prisoners
    opened_boxes,       \* main.rs:55
    box_contents,       \* main.rs:56
    probes,             \* indices passed to boxes[..] in the current search
    results,            \* main.rs:54-64   values yielded by the prisoner map
    simulation_results, \* main.rs:33-40   values yielded by the iteration map
    count,              \* main.rs:43   accumulator of filter(..).count()
    success_rate,       \* main.rs:43/112   the f32 returned
    exit_code           \* process exit status, -1 while running

vars == <<pc, prisoners, iterations, strategy, trial, boxes, p, opened_boxes,
          box_contents, probes, results, simulation_results, count,
          success_rate, exit_code>>

None == <<>>
Some(x) == <<x>>

EmptyVec == [i \in {} |-> 0]

Strategies == {"loop_strategy", "naive_strategy"}

\* ------------------------------------------------------------------------
\* Pure helpers

\* (0..prisoners).collect() followed by shuffle: some permutation of 0..n-1.
ShuffleWithRepeats(n) == [0 .. n - 1 -> 0 .. n - 1]

Shuffle(n) == {f \in [0 .. n - 1 -> 0 .. n - 1] :
                  \A i, j \in 0 .. n - 1 : f[i] = f[j] => i = j}

\* The index loop_strategy reads: boxes[previous] or boxes[prisoner].
loop_strategy_stuck(prisoner, previous) == prisoner

loop_strategy_index(prisoner, previous) ==
    IF previous = None THEN prisoner ELSE previous[1]

\* The indices _naive_strategy may read: gen_range(0..boxes.len()).
naive_strategy_index(b) == DOMAIN b

\* The indices the selected strategy may read on one call.
StrategyIndex(s, b, prisoner, previous) ==
    IF s = "loop_strategy"
    THEN {loop_strategy_index(prisoner, previous)}
    ELSE naive_strategy_index(b)

\* The condition of the while loop of apply_strategy.
WhileCondHalf(contents, prisoner, opened, n) ==
    contents # prisoner /\ opened + 1 < n \div 2

WhileCond(contents, prisoner, opened, n) ==
    contents # prisoner /\ opened < n \div 2

\* .filter(|s| *s).count() over a finished sequence of booleans.
FilterCount(s) == Cardinality({i \in DOMAIN s : s[i]})

\* The value apply_strategy returns.
AnySucceeded(success_count, n) == success_count > 0

AllSucceeded(success_count, n) == success_count = n

\* The range 0..iterations still yields an item.
OneMoreIteration(t, k) == t <= k

MoreIterations(t, k) == t < k

\* IEEE-754 division of two non-negative counts converted to f32.
F32Div(a, b) ==
    IF b = 0
    THEN [kind |-> IF a = 0 THEN "NaN" ELSE "inf", num |-> a, den |-> b]
    ELSE [kind |-> "num", num |-> a, den |-> b]

NoRate == [kind |-> "none", num |-> 0, den |-> 0]

\* ------------------------------------------------------------------------
\* The program

Init ==
    /\ pc = "main"
    /\ strategy \in Strategies
    /\ prisoners \in 0 .. (IF strategy = "loop_strategy"
                           THEN MaxPrisoners ELSE MaxNaivePrisoners)
    /\ iterations \in 0 .. MaxIterations
    /\ trial = 0
    /\ boxes = EmptyVec
    /\ p = 0
    /\ opened_boxes = 0
    /\ box_contents = 0
    /\ probes = <<>>
    /\ results = <<>>
    /\ simulation_results = <<>>
    /\ count = 0
    /\ success_rate = NoRate
    /\ exit_code = -1

\* main parses the arguments, prints the banner and calls
\* simulate_prisoner_dilemma; no argument value is rejected.
Main ==
    /\ pc = "main"
    /\ pc' = "iterate"
    /\ UNCHANGED <<prisoners, iterations, strategy, trial, boxes, p,
                   opened_boxes, box_contents, probes, results,
                   simulation_results, count, success_rate, exit_code>>

\* One item of the iteration map is requested: collect and shuffle the boxes
\* and enter apply_strategy.
StartTrial ==
    /\ pc = "iterate"
    /\ MoreIterations(trial, iterations)
    /\ boxes' \in Shuffle(prisoners)
    /\ p' = 0
    /\ results' = <<>>
    /\ pc' = "map"
    /\ UNCHANGED <<prisoners, iterations, strategy, trial, opened_boxes,
                   box_contents, probes, simulation_results, count,
                   success_rate, exit_code>>

\* The closure body starts for prisoner p: opened_boxes = 0 and the first
\* call of the strategy, with previous = None.
FirstProbe ==
    /\ pc = "map"
    /\ p < prisoners
    /\ \E i \in StrategyIndex(strategy, boxes, p, None) :
          /\ box_contents' = boxes[i]
          /\ probes' = <<i>>
    /\ opened_boxes' = 0
    /\ pc' = "while"
    /\ UNCHANGED <<prisoners, iterations, strategy, trial, boxes, p, results,
                   simulation_results, count, success_rate, exit_code>>

\* One round of the while loop.
WhileStep ==
    /\ pc = "while"
    /\ WhileCond(box_contents, p, opened_boxes, prisoners)
    /\ opened_boxes' = opened_boxes + 1
    /\ \E i \in StrategyIndex(strategy, boxes, p, Some(box_contents)) :
          /\ box_contents' = boxes[i]
          /\ probes' = Append(probes, i)
    /\ UNCHANGED <<pc, prisoners, iterations, strategy, trial, boxes, p,
                   results, simulation_results, count, success_rate,
                   exit_code>>

\* The while loop ends: the closure yields box_contents == p and the locals
\* go out of scope.
WhileExit ==
    /\ pc = "while"
    /\ ~WhileCond(box_contents, p, opened_boxes, prisoners)
    /\ results' = Append(results, box_contents = p)
    /\ p' = p + 1
    /\ opened_boxes' = 0
    /\ box_contents' = 0
    /\ probes' = <<>>
    /\ pc' = "map"
    /\ UNCHANGED <<prisoners, iterations, strategy, trial, boxes,
                   simulation_results, count, success_rate, exit_code>>

\* The prisoner range is exhausted: apply_strategy returns
\* success_count == prisoners, and the outer filter counts it.
ApplyReturn ==
    /\ pc = "map"
    /\ p >= prisoners
    /\ LET outcome == AllSucceeded(FilterCount(results), prisoners)
       IN  /\ simulation_results' = Append(simulation_results, outcome)
           /\ count' = IF outcome THEN count + 1 ELSE count
    /\ trial' = trial + 1
    /\ pc' = "iterate"
    /\ UNCHANGED <<prisoners, iterations, strategy, boxes, p, opened_boxes,
                   box_contents, probes, results, success_rate, exit_code>>

\* The iteration range is exhausted: the count is divided by iterations.
Finish ==
    /\ pc = "iterate"
    /\ ~MoreIterations(trial, iterations)
    /\ success_rate' = F32Div(count, iterations)
    /\ pc' = "report"
    /\ UNCHANGED <<prisoners, iterations, strategy, trial, boxes, p,
                   opened_boxes, box_contents, probes, results,
                   simulation_results, count, exit_code>>

\* main prints the result and returns.
Report ==
    /\ pc = "report"
    /\ exit_code' = 0
    /\ pc' = "done"
    /\ UNCHANGED <<prisoners, iterations, strategy, trial, boxes, p,
                   opened_boxes, box_contents, probes, results,
                   simulation_results, count, success_rate>>

Next ==
    \/ Main
    \/ StartTrial
    \/ FirstProbe
    \/ WhileStep
    \/ WhileExit
    \/ ApplyReturn
    \/ Finish
    \/ Report

Spec == Init /\ [][Next]_vars

\* The program is one thread that runs until main returns.
FairSpec == Spec /\ WF_vars(Next)

\* ------------------------------------------------------------------------
\* Vocabulary of the properties

\* The value reached from index q after k steps of "open the box whose index
\* is the value just revealed".
RECURSIVE Follow(_, _, _)
Follow(b, q, k) == IF k = 0 THEN q ELSE b[Follow(b, q, k - 1)]

\* Length of the cycle of permutation b that contains q.
CycleLength(b, q) ==
    CHOOSE k \in 1 .. Cardinality(DOMAIN b) :
        /\ Follow(b, q, k) = q
        /\ \A j \in 1 .. k - 1 : Follow(b, q, j) # q

IsPermutation(b, n) ==
    /\ DOMAIN b = 0 .. n - 1
    /\ \A v \in 0 .. n - 1 : Cardinality({i \in DOMAIN b : b[i] = v}) = 1

\* The search of prisoner p has just stopped: the loop condition is false.
SearchEnded == pc = "while" /\ ~(box_contents # p /\ opened_boxes < prisoners \div 2)

\* apply_strategy has just returned for trial number `trial`; boxes and
\* results are still those of that trial.
TrialEnded == pc = "iterate" /\ trial >= 1

\* ------------------------------------------------------------------------
\* C1: under the loop strategy, for N >= 1, the search of prisoner p ends
\* with box_contents = p if and only if the cycle containing p has length at
\* most N/2.
C1_LoopSuccessIffCycleWithinHalf ==
    (strategy = "loop_strategy" /\ prisoners >= 1 /\ SearchEnded)
        => ((box_contents = p) <=> (CycleLength(boxes, p) <= prisoners \div 2))

\* C2: the number of boxes opened in one search, counting every call of the
\* strategy function, never exceeds N/2.
C2_ProbesWithinHalf ==
    (prisoners >= 1 /\ pc = "while") => Len(probes) <= prisoners \div 2

\* C3: with prisoners = 0 or iterations = 0 the run is rejected: no trial is
\* started, no ratio is computed (so it is never NaN), and the process does
\* not exit with status 0.
C3_InvalidConfigurationRejected ==
    (prisoners = 0 \/ iterations = 0)
        => /\ pc \notin {"map", "while"}
           /\ trial = 0
           /\ success_rate = NoRate
           /\ exit_code # 0

C5_LongestCycleDecidesTrial ==
    (strategy = "loop_strategy" /\ prisoners >= 1 /\ TrialEnded)
        => /\ (\E q \in DOMAIN boxes : CycleLength(boxes, q) > prisoners \div 2)
                => ~simulation_results[trial]
           /\ (\A q \in DOMAIN boxes : CycleLength(boxes, q) < prisoners \div 2)
                => simulation_results[trial]

\* C6: apply_strategy evaluates every prisoner of 0..N-1 and returns true if
\* and only if every search ended in success.
C6_TrialSucceedsIffAllSucceed ==
    TrialEnded
        => /\ Len(results) = prisoners
           /\ simulation_results[trial] <=> (\A i \in 1 .. prisoners : results[i])

C6_Witness ==
    /\ TrialEnded
    /\ prisoners >= 3
    /\ Cardinality({i \in 1 .. prisoners : ~results[i]}) = 1
    /\ ~simulation_results[trial]

\* C7: exactly K trials are run, the result is (number of true outcomes) / K,
\* a value in [0, 1], and the running count of successes never exceeds the
\* number of trials completed.
C7_RateIsSuccessesOverIterations ==
    /\ count <= Len(simulation_results)
    /\ pc \in {"report", "done"}
         => /\ Len(simulation_results) = iterations
            /\ success_rate.kind = "num"
            /\ success_rate.num = Cardinality({i \in DOMAIN simulation_results :
                                                   simulation_results[i]})
            /\ success_rate.den = iterations
            /\ 0 <= success_rate.num
            /\ success_rate.num <= success_rate.den

\* C8: during a trial the boxes are a permutation of 0..N-1 and no step of a
\* search, under either strategy, changes them.
C8_BoxesFixedDuringTrial ==
    /\ [](pc \in {"map", "while"} => IsPermutation(boxes, prisoners))
    /\ [][(pc \in {"map", "while"}) => (boxes' = boxes)]_vars

C8_Witness ==
    /\ strategy = "naive_strategy"
    /\ pc = "while"
    /\ p >= 1
    /\ Len(probes) >= 2
    /\ probes[1] = probes[2]

\* C9: for N >= 1 and K >= 1 every search ends, every trial ends, and the
\* run reaches its final state after the K-th trial.
C9_SimulationCompletes ==
    (prisoners >= 1 /\ iterations >= 1)
        => /\ (pc = "while") ~> (pc = "map")
           /\ (pc = "map") ~> (pc = "iterate")
           /\ <>(pc = "done" /\ trial = iterations
                    /\ Len(simulation_results) = iterations)

C9_Witness ==
    /\ strategy = "naive_strategy"
    /\ prisoners >= 2
    /\ iterations >= 2
    /\ pc = "done"
    /\ trial = iterations

\* C10: under the loop strategy the first box opened is box p, every later
\* box is the one whose index is the value just revealed, and no box is
\* opened twice in one search.
C10_LoopProbesDistinct ==
    (strategy = "loop_strategy" /\ pc = "while")
        => /\ probes[1] = p
           /\ \A k \in 2 .. Len(probes) : probes[k] = boxes[probes[k - 1]]
           /\ \A j, k \in 1 .. Len(probes) : probes[j] = probes[k] => j = k

C10_Witness ==
    /\ strategy = "loop_strategy"
    /\ pc = "while"
    /\ Len(probes) >= 3
    /\ box_contents = p

====
